---- MODULE Spec2Model ----
(***************************************************************************)
(* Model of face_player.py: the RosSubscriber callback (producer thread),  *)
(* the shared Queue q_mood, and the RobotFaceUI animation player driven by *)
(* the render loop of main().                                              *)
(*                                                                         *)
(* Python strings are sequences of one-character strings, so that          *)
(* str.strip() and str.upper() are computed and not assumed.               *)
(***************************************************************************)
EXTENDS Integers, Sequences, FiniteSets, TLC

\* ------------------------------------------------------------ bounds
\* The pygame clock (milliseconds, scaled) stops at MaxTime.
MaxTime == 4
\* Total number of Queue.put calls (callback and add_to_queue together).
MaxPush == 3

\* Evenly spaced update() calls: the clock stops at MaxSpacedTime, the frame
\* delays tried are 2..MaxSpacedDelay.
MaxSpacedTime == 12
MaxSpacedDelay == 4

\* The count of frame advances stops at MaxAdvances; only a render loop
\* that runs without end gets there.
MaxAdvances == 7

\* ------------------------------------------------------------ strings
LowerChars == <<"a","b","c","d","e","f","g","h","i","j","k","l","m",
                "n","o","p","q","r","s","t","u","v","w","x","y","z">>
UpperChars == <<"A","B","C","D","E","F","G","H","I","J","K","L","M",
                "N","O","P","Q","R","S","T","U","V","W","X","Y","Z">>
Whitespace == {" ", "\t", "\n"}

\* Code points, as far as ordering needs them: whitespace < upper < lower.
Ord(c) ==
    IF c = "\t" THEN 9
    ELSE IF c = "\n" THEN 10
    ELSE IF c = " " THEN 32
    ELSE IF \E i \in 1..26 : UpperChars[i] = c
         THEN 64 + (CHOOSE i \in 1..26 : UpperChars[i] = c)
    ELSE IF \E i \in 1..26 : LowerChars[i] = c
         THEN 96 + (CHOOSE i \in 1..26 : LowerChars[i] = c)
    ELSE 127

\* str.upper(), character by character.
UpperChar(c) ==
    IF \E i \in 1..26 : LowerChars[i] = c
    THEN UpperChars[CHOOSE i \in 1..26 : LowerChars[i] = c]
    ELSE c

Upper(s) == [i \in 1..Len(s) |-> UpperChar(s[i])]

RECURSIVE LStrip(_)
LStrip(s) ==
    IF s # <<>> /\ Head(s) \in Whitespace THEN LStrip(Tail(s)) ELSE s

RECURSIVE RStrip(_)
RStrip(s) ==
    IF s # <<>> /\ s[Len(s)] \in Whitespace
    THEN RStrip(SubSeq(s, 1, Len(s) - 1))
    ELSE s

\* str.strip()
Strip(s) == RStrip(LStrip(s))

\* Python's < on str: lexicographic by code point, a proper prefix first.
RECURSIVE StrLess(_, _)
StrLess(s, t) ==
    IF t = <<>> THEN FALSE
    ELSE IF s = <<>> THEN TRUE
    ELSE IF Ord(Head(s)) # Ord(Head(t)) THEN Ord(Head(s)) < Ord(Head(t))
    ELSE StrLess(Tail(s), Tail(t))

\* Mutant of SortedFirst: sorted in reverse.
SortedFirst_reverse(names) ==
    CHOOSE n \in names : \A o \in names : o = n \/ StrLess(o, n)

\* sorted(names)[0]
SortedFirst(names) ==
    CHOOSE n \in names : \A o \in names : o = n \/ StrLess(n, o)

\* sorted(names)[-1]
SortedLast(names) ==
    CHOOSE n \in names : \A o \in names : o = n \/ StrLess(o, n)

\* ------------------------------------------------------------ inputs
DEFAULT_MOOD == <<"B","L","A","N","K">>
HAPPY == <<"H","A","P","P","Y">>
SAD   == <<"S","A","D">>
FOO   == <<"F","O","O">>

\* A mood directory is what os.listdir shows of it: its subdirectories, each
\* with the number of its files whose lower-cased name ends in ".jpg".
DirA == { [name |-> <<"b","l","a","n","k">>, jpgs |-> 3],
          [name |-> <<"h","a","p","p","y">>, jpgs |-> 5] }
DirB == { [name |-> <<"h","a","p","p","y">>, jpgs |-> 2],
          [name |-> <<"S","a","d">>,         jpgs |-> 2],
          [name |-> <<"s","a","d">>,         jpgs |-> 1],
          [name |-> <<"t","m","p">>,         jpgs |-> 0] }
DirEmpty == { [name |-> <<"t","m","p">>, jpgs |-> 0] }
NoDir == {}
MoodDirs == { [isdir |-> TRUE,  entries |-> DirA],
              [isdir |-> TRUE,  entries |-> DirB],
              [isdir |-> TRUE,  entries |-> DirEmpty],
              [isdir |-> FALSE, entries |-> NoDir] }

\* Values of --frame_delay, in units of the clock.
FrameDelays == { 1, 2 }

\* Values of --default_mood.
DefaultArgs == { DEFAULT_MOOD, SAD }

\* msg.data of the messages published on /robot_face.
Payloads == { <<" ","h","a","p","p","y","\n">>,
              HAPPY,
              <<"b","l","a","n","k">>,
              <<"f","o","o">>,
              <<>>,
              <<" ","\t">> }

\* Arguments of direct add_to_queue calls.
QueueArgs == { <<" ","H","A","P","P","Y"," ">>, <<" ">> }

\* Arguments of direct play calls.
PlayArgs == { HAPPY, DEFAULT_MOOD, FOO }

\* ------------------------------------------------------------ state
VARIABLES
    mood_dir,           \* args.path, as listed by the file system
    arg_default_mood,   \* args.default_mood
    frame_delay_ms,     \* args.frame_delay = self.frame_delay_ms
    spacing,            \* clock units between update() calls, 0: unconstrained
    now,                \* pygame.time.get_ticks()
    q_mood,             \* the shared Queue
    last_command,       \* RosSubscriber._last_command
    moods,              \* RobotFaceUI.moods
    default_mood,       \* RobotFaceUI.default_mood
    current_mood,       \* RobotFaceUI.current_mood
    current_name,       \* RobotFaceUI.current_name
    current_frames,     \* RobotFaceUI.current_frames
    index,              \* RobotFaceUI.index
    last_change,        \* RobotFaceUI.last_change
    pc,                 \* where the main thread is
    pushed,             \* history: every value put into q_mood, in order
    popped,             \* history: every value get_nowait returned, in order
    advances,           \* history: number of frame advances so far
    wrap                \* history: the last advance went from the last frame to 0

config == <<mood_dir, arg_default_mood, frame_delay_ms, spacing>>
anim   == <<current_mood, current_name, current_frames, index, last_change>>
player == <<moods, default_mood, current_mood, current_name, current_frames,
            index, last_change>>
vars   == <<mood_dir, arg_default_mood, frame_delay_ms, spacing, now, q_mood,
            last_command, moods, default_mood, current_mood, current_name,
            current_frames, index, last_change, pc, pushed, popped,
            advances, wrap>>

\* ------------------------------------------------------------ MoodLibrary
\* _load_mood_frames: the decoded images of one subdirectory, in file order.
load_mood_frames(entry) ==
    [i \in 1..entry.jpgs |-> [dir |-> entry.name, img |-> i]]

\* Mutant of load_all_moods: subdirectories without frames are kept.
load_all_moods_keeps_empty(dir) ==
    IF ~dir.isdir THEN <<>>
    ELSE LET keys   == {Upper(e.name) : e \in dir.entries}
             last(k) == CHOOSE e \in dir.entries :
                           /\ Upper(e.name) = k
                           /\ e.name = SortedLast({o.name : o \in
                                          {x \in dir.entries : Upper(x.name) = k}})
         IN  [k \in keys |-> load_mood_frames(last(k))]

\* _load_all_moods: later names (in sorted order) overwrite earlier ones that
\* upper-case to the same key; subdirectories without frames are skipped.
load_all_moods(dir) ==
    IF ~dir.isdir THEN <<>>
    ELSE LET loaded == {e \in dir.entries : load_mood_frames(e) # <<>>}
             keys   == {Upper(e.name) : e \in loaded}
             last(k) == CHOOSE e \in loaded :
                           /\ Upper(e.name) = k
                           /\ e.name = SortedLast({o.name : o \in
                                          {x \in loaded : Upper(x.name) = k}})
         IN  [k \in keys |-> load_mood_frames(last(k))]

Constructed == pc \in {"idle", "check"}

\* update(), lines 128-133: the frame it blits, self.current_frames[self.index].
render_target == current_frames[index + 1]

\* ------------------------------------------------------------ Init
\* main() up to line 182: the subscriber thread runs, the player is not yet
\* constructed.
Started ==
    /\ mood_dir \in MoodDirs
    /\ arg_default_mood \in DefaultArgs
    /\ now = 0
    /\ q_mood = <<>>
    /\ last_command = DEFAULT_MOOD
    /\ moods = <<>>
    /\ default_mood = <<>>
    /\ current_mood = <<>>
    /\ current_name = <<>>
    /\ current_frames = <<>>
    /\ index = 0
    /\ last_change = 0
    /\ pc = "start"
    /\ pushed = <<>>
    /\ popped = <<>>
    /\ advances = 0
    /\ wrap = FALSE

Init ==
    /\ Started
    /\ frame_delay_ms \in FrameDelays
    /\ spacing = 0

\* update() calls evenly spaced, less than a frame delay apart.
InitSpaced ==
    /\ Started
    /\ frame_delay_ms \in 2..MaxSpacedDelay
    /\ spacing \in 1..(frame_delay_ms - 1)

\* ------------------------------------------------------------ clock
Tick ==
    /\ pc # "failed"
    /\ now < MaxTime
    /\ now' = now + 1
    /\ UNCHANGED <<config, q_mood, last_command, player, pc, pushed,
                   popped, advances, wrap>>

\* ------------------------------------------------------------ producer
\* Mutant of put: a LifoQueue, the item goes to the front.
put_lifo(item) ==
    /\ q_mood' = <<item>> \o q_mood
    /\ pushed' = Append(pushed, item)

\* Queue.put
put(item) ==
    /\ q_mood' = Append(q_mood, item)
    /\ pushed' = Append(pushed, item)

\* Mutant of callback: no comparison with the last command.
callback_no_dedup(data) ==
    LET cmd == Upper(Strip(data)) IN
    IF cmd # <<>>
    THEN /\ put(cmd)
         /\ last_command' = cmd
    ELSE UNCHANGED <<q_mood, pushed, last_command>>

\* Mutant of callback: the payload is upper-cased but not stripped.
callback_no_strip(data) ==
    LET cmd == Upper(data) IN
    IF cmd # <<>> /\ cmd # last_command
    THEN /\ put(cmd)
         /\ last_command' = cmd
    ELSE UNCHANGED <<q_mood, pushed, last_command>>

\* RosSubscriber._callback
callback(data) ==
    LET cmd == Upper(Strip(data)) IN
    IF cmd # <<>> /\ cmd # last_command
    THEN /\ put(cmd)
         /\ last_command' = cmd
    ELSE UNCHANGED <<q_mood, pushed, last_command>>

\* Mutant of Callback: the subscriber thread applies the mood to the player
\* itself instead of only queueing its identifier.
Callback_shares_state(data) ==
    LET cmd == Upper(Strip(data)) IN
    /\ pc # "failed"
    /\ Len(pushed) < MaxPush
    /\ callback(data)
    /\ IF Constructed /\ cmd \in DOMAIN moods
       THEN /\ current_name' = cmd
            /\ current_frames' = moods[cmd]
            /\ index' = 0
            /\ last_change' = now
       ELSE UNCHANGED <<current_name, current_frames, index, last_change>>
    /\ UNCHANGED <<config, now, moods, default_mood, current_mood, pc,
                   popped, advances, wrap>>

Callback(data) ==
    /\ pc # "failed"
    /\ Len(pushed) < MaxPush
    /\ callback(data)
    /\ UNCHANGED <<config, now, player, pc, popped, advances, wrap>>

\* RobotFaceUI.add_to_queue
AddToQueue(name) ==
    /\ Constructed
    /\ Len(pushed) < MaxPush
    /\ put(name)
    /\ UNCHANGED <<config, now, last_command, player, pc, popped,
                   advances, wrap>>

\* ------------------------------------------------------------ player
\* RobotFaceUI.__init__
Construct ==
    /\ pc = "start"
    /\ moods' = load_all_moods(mood_dir)
    /\ IF DOMAIN moods' = {}
       THEN /\ pc' = "failed"
            /\ UNCHANGED <<default_mood, anim>>
       ELSE LET dm == IF arg_default_mood \in DOMAIN moods'
                      THEN arg_default_mood
                      ELSE SortedFirst(DOMAIN moods')
            IN  /\ default_mood' = dm
                /\ current_mood' = dm
                /\ current_name' = dm
                /\ current_frames' = moods'[dm]
                /\ index' = 0
                /\ last_change' = now
                /\ pc' = "idle"
    /\ UNCHANGED <<config, now, q_mood, last_command, pushed, popped,
                   advances, wrap>>

\* Mutant of play: the frame index is not reset.
play_keeps_index(name) ==
    IF name \notin DOMAIN moods
    THEN UNCHANGED <<current_name, current_frames, index, last_change>>
    ELSE /\ current_name' = name
         /\ current_frames' = moods[name]
         /\ index' = index % Len(moods[name])
         /\ last_change' = now

\* Mutant of play: the name is checked after the index and the time stamp
\* were reset.
play_resets_first(name) ==
    /\ index' = 0
    /\ last_change' = now
    /\ IF name \notin DOMAIN moods
       THEN UNCHANGED <<current_name, current_frames>>
       ELSE /\ current_name' = name
            /\ current_frames' = moods[name]

\* Mutant of play: the frame index of the previous mood is kept.
play_stale_index(name) ==
    IF name \notin DOMAIN moods
    THEN UNCHANGED <<current_name, current_frames, index, last_change>>
    ELSE /\ current_name' = name
         /\ current_frames' = moods[name]
         /\ index' = index
         /\ last_change' = now

\* RobotFaceUI.play
play(name) ==
    IF name \notin DOMAIN moods
    THEN UNCHANGED <<current_name, current_frames, index, last_change>>
    ELSE /\ current_name' = name
         /\ current_frames' = moods[name]
         /\ index' = 0
         /\ last_change' = now

Play(name) ==
    /\ pc = "idle"
    /\ play(name)
    /\ UNCHANGED <<config, now, q_mood, last_command, moods, default_mood,
                   current_mood, pc, pushed, popped, advances, wrap>>

\* Mutant of due: the delay must be exceeded.
due_strictly_later(t) == t - last_change > frame_delay_ms

\* update(), line 121, with t the value get_ticks() returned in line 120.
due(t) == t - last_change >= frame_delay_ms

\* Mutant of at_boundary: the check runs on the last frame (Policy B's trigger).
at_boundary_last_frame(i) == i = Len(current_frames) - 1

\* Mutant of at_boundary: the check runs after every advance.
at_boundary_every_advance(i) == TRUE

\* update(), line 125: the advance calls for a queue check.
at_boundary(i) == i = 0

\* Mutant of update: one call catches up with all the frame delays elapsed.
update_catches_up(t) ==
    IF due(t)
    THEN LET n == (t - last_change) \div frame_delay_ms
             i == (index + n) % Len(current_frames)
         IN  /\ index' = i
             /\ last_change' = t
             /\ advances' = IF advances < MaxAdvances
                            THEN advances + 1 ELSE advances
             /\ wrap' = (index = Len(current_frames) - 1 /\ i = 0)
             /\ IF at_boundary(i)
                THEN pc' = "check"
                ELSE pc' = "idle"
    ELSE UNCHANGED <<index, last_change, advances, wrap, pc>>

\* update() up to the call of _check_queue, with t the value of its local
\* variable now; without a queue check the call ends here, presenting
\* render_target.
update(t) ==
    IF due(t)
    THEN LET i == (index + 1) % Len(current_frames) IN
         /\ index' = i
         /\ last_change' = t
         /\ advances' = IF advances < MaxAdvances
                        THEN advances + 1 ELSE advances
         /\ wrap' = (index = Len(current_frames) - 1 /\ i = 0)
         /\ IF at_boundary(i)
            THEN pc' = "check"
            ELSE pc' = "idle"
    ELSE UNCHANGED <<index, last_change, advances, wrap, pc>>

\* The render loop calls update() at any time.
Update ==
    /\ pc = "idle"
    /\ update(now)
    /\ UNCHANGED <<config, now, q_mood, last_command, moods, default_mood,
                   current_mood, current_name, current_frames, pushed, popped>>

\* The render loop calls update() every `spacing` clock units.
SpacedUpdate ==
    /\ pc = "idle"
    /\ now + spacing <= MaxSpacedTime
    /\ now' = now + spacing
    /\ update(now + spacing)
    /\ UNCHANGED <<config, q_mood, last_command, moods, default_mood,
                   current_mood, current_name, current_frames, pushed, popped>>

\* Mutant of check_queue: the new mood is noted but not played.
check_queue_notes_only(next_mood) ==
    IF next_mood # current_mood
    THEN /\ current_mood' = next_mood
         /\ UNCHANGED <<current_name, current_frames, index, last_change>>
    ELSE UNCHANGED anim

\* _check_queue after _get_next_valid_mood returned next_mood.
check_queue(next_mood) ==
    IF next_mood # current_mood
    THEN /\ current_mood' = next_mood
         /\ play(next_mood)
    ELSE UNCHANGED anim

\* Mutant of no_next_mood: Policy B's fallback to the default mood.
no_next_mood_fallback ==
    IF current_mood # default_mood
    THEN /\ current_mood' = default_mood
         /\ play(default_mood)
    ELSE UNCHANGED anim

\* _check_queue, lines 71-72: _get_next_valid_mood returned None.
no_next_mood == UNCHANGED anim

\* Mutant of is_valid: the name is not looked up in the library.
is_valid_unchecked(name) == name # <<>>

\* Mutant of is_valid: a name equal to the current mood does not end the loop.
is_valid_and_new(name) ==
    name # <<>> /\ name \in DOMAIN moods /\ name # current_mood

\* _get_next_valid_mood: whether a dequeued name ends the loop.
is_valid(name) == name # <<>> /\ name \in DOMAIN moods

\* Mutant of GetNowait: q_mood.get(), which waits for an item, in place of
\* get_nowait().
GetNowait_blocking ==
    /\ pc = "check"
    /\ q_mood # <<>>
    /\ LET name == Strip(Head(q_mood)) IN
       /\ q_mood' = Tail(q_mood)
       /\ popped' = Append(popped, Head(q_mood))
       /\ IF is_valid(name)
          THEN /\ check_queue(name)
               /\ pc' = "idle"
          ELSE UNCHANGED <<anim, pc>>
    /\ UNCHANGED <<config, now, last_command, moods, default_mood, pushed,
                   advances, wrap>>

\* One iteration of the loop of _get_next_valid_mood, and, when the loop ends,
\* the rest of _check_queue and of update().
GetNowait ==
    /\ pc = "check"
    /\ IF q_mood = <<>>
       THEN /\ UNCHANGED <<q_mood, popped>>
            /\ no_next_mood
            /\ pc' = "idle"
       ELSE LET name == Strip(Head(q_mood)) IN
            /\ q_mood' = Tail(q_mood)
            /\ popped' = Append(popped, Head(q_mood))
            /\ IF is_valid(name)
               THEN /\ check_queue(name)
                    /\ pc' = "idle"
               ELSE UNCHANGED <<anim, pc>>
    /\ UNCHANGED <<config, now, last_command, moods, default_mood, pushed,
                   advances, wrap>>

\* ------------------------------------------------------------ specification
Next ==
    \/ Tick
    \/ Construct
    \/ \E data \in Payloads : Callback(data)
    \/ \E name \in QueueArgs : AddToQueue(name)
    \/ \E name \in PlayArgs : Play(name)
    \/ Update
    \/ GetNowait

Spec == Init /\ [][Next]_vars

\* Runs without a direct play() call.
NextQueue ==
    \/ Tick
    \/ Construct
    \/ \E data \in Payloads : Callback(data)
    \/ \E name \in QueueArgs : AddToQueue(name)
    \/ Update
    \/ GetNowait

SpecQueue == Init /\ [][NextQueue]_vars

\* The program as main() runs it: the subscriber is the only producer.
NextMain ==
    \/ Tick
    \/ Construct
    \/ \E data \in Payloads : Callback(data)
    \/ Update
    \/ GetNowait

SpecMain == Init /\ [][NextMain]_vars

\* The render loop alone, calling update() at a fixed spacing.
NextSpaced ==
    \/ Construct
    \/ SpacedUpdate
    \/ GetNowait

SpecSpaced == InitSpaced /\ [][NextSpaced]_vars

\* The record of what was pushed and popped is cut down to the entries still
\* queued, so that the subscriber can go on receiving commands without end.
ForgetPopped ==
    /\ popped # <<>>
    /\ pushed' = q_mood
    /\ popped' = <<>>
    /\ UNCHANGED <<config, now, q_mood, last_command, player, pc, advances,
                   wrap>>

\* The program of main() with a subscriber that never stops receiving; the
\* render thread is scheduled whenever it is inside the queue check.
NextFlood ==
    \/ Tick
    \/ Construct
    \/ \E data \in Payloads : Callback(data)
    \/ Update
    \/ GetNowait
    \/ ForgetPopped

SpecFlood == Init /\ [][NextFlood]_vars /\ WF_vars(GetNowait)

\* The player driven directly: play() and add_to_queue() with the names of
\* the library, between update() calls.
DirectNames == {HAPPY, SAD, DEFAULT_MOOD}

NextDirect ==
    \/ Tick
    \/ Construct
    \/ \E name \in DirectNames : AddToQueue(name)
    \/ \E name \in DirectNames : Play(name)
    \/ Update
    \/ GetNowait

SpecDirect == Init /\ [][NextDirect]_vars

\* A clock that never stops. update() and play() read the clock only to
\* subtract last_change from it (line 121) or to store it in last_change, so
\* the clock is kept relative to the last advance; an elapsed time of MaxTime
\* stands for every longer one.
LiveTick ==
    /\ pc # "failed"
    /\ now - last_change < MaxTime
    /\ now' = now - last_change + 1
    /\ last_change' = 0
    /\ UNCHANGED <<config, q_mood, last_command, moods, default_mood,
                   current_mood, current_name, current_frames, index, pc,
                   pushed, popped, advances, wrap>>

\* main(): the render loop calls update() again and again while the clock
\* runs; the subscriber pushes MaxPush times at most.
NextLive ==
    \/ LiveTick
    \/ Construct
    \/ \E data \in Payloads : Callback(data)
    \/ Update
    \/ GetNowait

SpecLive ==
    /\ Init
    /\ [][NextLive]_vars
    /\ WF_vars(LiveTick)
    /\ WF_vars(Construct)
    /\ WF_vars(Update)
    /\ WF_vars(GetNowait)

\* ------------------------------------------------------------ claims
\* The consumer's get_nowait returned an item in this step.
Popping == popped' # popped

\* The library and start state of the spec's scenario:
\* {BLANK: 3 frames, HAPPY: 5 frames}, start mood BLANK.
Scenario ==
    /\ Constructed
    /\ DOMAIN moods = {DEFAULT_MOOD, HAPPY}
    /\ Len(moods[DEFAULT_MOOD]) = 3
    /\ Len(moods[HAPPY]) = 5
    /\ default_mood = DEFAULT_MOOD

\* C1, Policy A: an update() whose advance takes the index to 0 runs the queue
\* check, and a check that finds a valid mood X, different from current_mood,
\* at the head of the queue ends that update() displaying X at index 0. In
\* the scenario, the queue moves the player off BLANK at the third frame
\* advance and not before.
C1_PolicyA ==
    /\ [][(pc = "idle" /\ advances' # advances /\ index' = 0)
            => (pc' = "check" /\ UNCHANGED <<q_mood, current_mood>>)]_vars
    /\ [][(pc = "check" /\ q_mood # <<>> /\ ~Popping)
            => (pc' = "check" /\ Head(q_mood') = Head(q_mood)
                /\ UNCHANGED current_mood)]_vars
    /\ [][(/\ pc = "check"
           /\ Popping
           /\ Strip(Head(q_mood)) \in DOMAIN moods
           /\ Strip(Head(q_mood)) # current_mood)
            => (/\ wrap
                /\ current_mood' = Strip(Head(q_mood))
                /\ current_name' = Strip(Head(q_mood))
                /\ current_frames' = moods[Strip(Head(q_mood))]
                /\ index' = 0
                /\ pc' = "idle")]_vars
    /\ [](Scenario /\ advances < 3
            => current_mood = DEFAULT_MOOD /\ popped = <<>>)
    /\ [][(/\ Scenario
           /\ current_name = DEFAULT_MOOD
           /\ index = 2
           /\ advances = 2
           /\ advances' = 3
           /\ q_mood # <<>>
           /\ Head(q_mood) = HAPPY)
            => (pc' = "check" /\ index' = 0 /\ Head(q_mood') = HAPPY)]_vars

\* C1 witness: in the scenario the third advance has switched the player to
\* (HAPPY, 0) through the queue.
C1_Witness ==
    /\ Scenario
    /\ advances = 3
    /\ popped = <<HAPPY>>
    /\ current_mood = HAPPY
    /\ current_name = HAPPY
    /\ index = 0
    /\ pc = "idle"

\* C2: without direct play() calls, the displayed mood changes, and the queue
\* is popped, only inside an update() whose advance wrapped the index from
\* the last frame to 0.
C2_NoTearing ==
    /\ [][(Constructed /\ (current_name' # current_name
                           \/ current_frames' # current_frames))
            => (pc = "check" /\ wrap /\ index = 0 /\ index' = 0)]_vars
    /\ [][Popping => (pc = "check" /\ wrap /\ index = 0)]_vars
    /\ [][(pc = "idle" /\ pc' = "check")
            => (wrap' /\ index = Len(current_frames) - 1 /\ index' = 0)]_vars

\* C2 witness: a mood change applied from the queue.
C2_Witness ==
    /\ Constructed
    /\ popped # <<>>
    /\ current_name # default_mood
    /\ current_name = Strip(popped[Len(popped)])

\* C3: the queue is FIFO: what was popped, followed by what is queued, is
\* what was pushed, in order; a pop on the empty queue returns at once with
\* nothing.
C3_Fifo ==
    /\ [](popped \o q_mood = pushed)
    /\ [][(pc = "check" /\ q_mood = <<>> /\ pc' # pc)
            => (pc' = "idle" /\ popped' = popped /\ q_mood' = <<>>)]_vars
    /\ [](pc = "check" => ENABLED GetNowait)

\* C3 witness: three values were pushed and popped and the queue is empty.
C3_Witness ==
    /\ Len(popped) = 3
    /\ popped = pushed
    /\ q_mood = <<>>
    /\ pc = "idle"

\* C4: a dequeued identifier that is not a key of the library is discarded:
\* the animation state is unchanged and the same queue check goes on popping;
\* the check ends only on an empty queue or on a valid identifier, which it
\* applies when it differs from current_mood.
C4_SkipUnknown ==
    /\ [][(Popping /\ Strip(Head(q_mood)) \notin DOMAIN moods)
            => (pc = "check" /\ pc' = "check" /\ UNCHANGED anim
                /\ q_mood' = Tail(q_mood))]_vars
    /\ [][(pc = "check" /\ pc' = "idle")
            => (\/ q_mood = <<>> /\ ~Popping /\ UNCHANGED anim
                \/ /\ q_mood # <<>>
                   /\ Popping
                   /\ Strip(Head(q_mood)) \in DOMAIN moods
                   /\ current_mood' = Strip(Head(q_mood))
                   /\ Strip(Head(q_mood)) # current_mood
                        => current_name' = Strip(Head(q_mood)))]_vars
    /\ [](pc = "check" => ENABLED GetNowait)

\* C4 witness: one queue check (the start mood wrapped once) popped an unknown
\* identifier and then a valid one, and the valid one is displayed.
C4_Witness ==
    /\ pc = "idle"
    /\ advances = Len(moods[default_mood])
    /\ Len(popped) = 2
    /\ Strip(popped[1]) # <<>>
    /\ Strip(popped[1]) \notin DOMAIN moods
    /\ Strip(popped[2]) \in DOMAIN moods
    /\ Strip(popped[2]) # default_mood
    /\ current_mood = Strip(popped[2])
    /\ current_name = Strip(popped[2])
    /\ index = 0

\* C5: a queue check stops at the first valid identifier it pops, also when
\* that identifier equals current_mood: it pops nothing after it and leaves
\* the rest of the queue as it was; it goes on only after an invalid entry,
\* and each pop removes exactly the head.
C5_OneValidPerCheck ==
    /\ [][(Popping /\ Strip(Head(q_mood)) \in DOMAIN moods)
            => (/\ pc = "check"
                /\ pc' = "idle"
                /\ popped' = Append(popped, Head(q_mood))
                /\ q_mood' = Tail(q_mood)
                /\ current_mood' = Strip(Head(q_mood))
                /\ Strip(Head(q_mood)) = current_mood => UNCHANGED anim)]_vars
    /\ [][(Popping /\ Strip(Head(q_mood)) \notin DOMAIN moods)
            => (/\ popped' = Append(popped, Head(q_mood))
                /\ q_mood' = Tail(q_mood)
                /\ UNCHANGED anim)]_vars
    /\ [][Popping => pc = "check"]_vars
    /\ [][(pc = "idle" /\ pc' = "check") => advances' = advances + 1]_vars

\* C5 witness: one queue check consumed a valid identifier equal to the
\* current mood and left the entries behind it in the queue.
C5_Witness ==
    /\ pc = "idle"
    /\ advances = Len(moods[default_mood])
    /\ Len(popped) = 1
    /\ Strip(popped[1]) = default_mood
    /\ current_mood = default_mood
    /\ Len(q_mood) = 2
    /\ Strip(q_mood[1]) \in DOMAIN moods
    /\ pushed = popped \o q_mood

\* C6: play(m) with m a key of the library leaves the player on m's frames at
\* index 0 with last_change set to the current time; the frame presented next
\* is m's first frame.
C6_PlayValid ==
    /\ [][\A m \in PlayArgs :
            (Play(m) /\ m \in DOMAIN moods)
              => (/\ current_name' = m
                  /\ current_frames' = moods[m]
                  /\ index' = 0
                  /\ last_change' = now
                  /\ render_target' = moods[m][1]
                  /\ render_target' = [dir |-> render_target'.dir, img |-> 1]
                  /\ Upper(render_target'.dir) = m)]_vars
    /\ [](pc = "idle" => \A m \in PlayArgs : ENABLED Play(m))

\* C6 witness: a direct play() took the player from a later frame of one mood
\* to the first frame of another.
C6_Witness ==
    /\ pc = "idle"
    /\ current_name # current_mood
    /\ current_name \in PlayArgs
    /\ advances > 0
    /\ index = 0
    /\ last_change = now
    /\ last_change > 0
    /\ render_target = moods[current_name][1]

\* C7: play(name) with name not a key of the library is accepted and changes
\* neither the animation state nor the queue.
C7_PlayInvalid ==
    /\ [][\A m \in PlayArgs :
            (Play(m) /\ m \notin DOMAIN moods)
              => UNCHANGED <<current_mood, current_name, current_frames,
                             index, last_change, q_mood, moods>>]_vars
    /\ [](pc = "idle" => \A m \in PlayArgs : ENABLED Play(m))
    /\ []((pc = "idle" /\ index > 0) => \E m \in PlayArgs : m \notin DOMAIN moods)

\* C7 witness: a state in which play() of an unknown name has something to
\* leave alone: a frame index above 0, a last_change in the past, a queue
\* that is not empty.
C7_Witness ==
    /\ pc = "idle"
    /\ index > 0
    /\ last_change < now
    /\ q_mood # <<>>
    /\ FOO \notin DOMAIN moods
    /\ ENABLED Play(FOO)

\* Number of update() calls, `spacing` apart, that it takes for a frame delay
\* to elapse: ceil(frame_delay_ms / spacing).
CallsPerAdvance == (frame_delay_ms + spacing - 1) \div spacing

\* C8 as stated: with update() calls spaced t < d apart, the number of frame
\* advances after elapsed time T since the last mood change is floor(T / d).
C8_OncePerDelay ==
    Constructed => advances = now \div frame_delay_ms

\* C8 as amended: with update() calls spaced t < d apart, the index does not
\* advance before elapsed time d, and then advances at every ceil(d / t)-th
\* call, measured from the last advance: after elapsed time T the number of
\* advances is floor(T / (t * ceil(d / t))), which is at most floor(T / d);
\* the index is that number modulo the frame count.
C8_OncePerDelayAmended ==
    Constructed
        => /\ advances = now \div (spacing * CallsPerAdvance)
           /\ advances <= now \div frame_delay_ms
           /\ now < frame_delay_ms => advances = 0 /\ index = 0
           /\ index = advances % Len(current_frames)
           /\ index \in 0..(Len(current_frames) - 1)
           /\ last_change = advances * spacing * CallsPerAdvance

\* C8 witness: the spacing does not divide the delay and the player has
\* advanced fewer than floor(T / d) times.
C8_Witness ==
    /\ Constructed
    /\ frame_delay_ms % spacing # 0
    /\ advances >= 2
    /\ advances < now \div frame_delay_ms
    /\ index = advances % Len(current_frames)

\* Every value the callback can enqueue: a normalized, non-empty payload.
Commands == {Upper(Strip(d)) : d \in Payloads} \ {<<>>}

\* C9: the callback never enqueues the same identifier twice in a row: a
\* message whose normalized identifier equals that of the last enqueued one
\* changes nothing, and neighbours in the history of enqueued values differ.
C9_Dedup ==
    /\ [](\A i \in 1..(Len(pushed) - 1) : pushed[i] # pushed[i + 1])
    /\ [](\A i \in 1..(Len(q_mood) - 1) : q_mood[i] # q_mood[i + 1])
    /\ [](pushed # <<>> => last_command = pushed[Len(pushed)])
    /\ [][\A d \in Payloads :
            (Callback(d) /\ pushed # <<>>
                /\ Upper(Strip(d)) = pushed[Len(pushed)])
              => UNCHANGED <<q_mood, pushed, last_command>>]_vars
    /\ [][Len(pushed') <= Len(pushed) + 1]_vars

\* C9 witness: an identifier was enqueued again after a different one came in
\* between.
C9_Witness ==
    /\ Len(pushed) = 3
    /\ pushed[1] = pushed[3]
    /\ pushed[1] # pushed[2]
    /\ last_command = pushed[3]

\* The pairs of different payloads that differ only in case or surrounding
\* whitespace.
Alike ==
    {p \in Payloads \X Payloads :
        p[1] # p[2] /\ Upper(Strip(p[1])) = Upper(Strip(p[2]))}

\* C10: the callback enqueues the payload stripped and upper-cased, the case
\* of the library's keys; payloads that differ only in case or surrounding
\* whitespace act alike; an empty or whitespace-only payload is not enqueued
\* and leaves last_command alone.
C10_Normalized ==
    /\ [](\A i \in 1..Len(pushed) :
            /\ pushed[i] \in Commands
            /\ pushed[i] # <<>>
            /\ Strip(pushed[i]) = pushed[i]
            /\ Upper(pushed[i]) = pushed[i])
    /\ [](last_command \in Commands \cup {DEFAULT_MOOD})
    /\ [][\A d \in Payloads :
            (Callback(d) /\ pushed' # pushed)
              => (/\ pushed' = Append(pushed, Upper(Strip(d)))
                  /\ q_mood' = Append(q_mood, Upper(Strip(d)))
                  /\ last_command' = Upper(Strip(d)))]_vars
    /\ [][\A d \in Payloads :
            Callback(d)
              => \A e \in Payloads :
                    Upper(Strip(e)) = Upper(Strip(d)) => Callback(e)]_vars
    /\ [][\A d \in Payloads :
            (Callback(d) /\ Strip(d) = <<>>)
              => UNCHANGED <<q_mood, pushed, last_command>>]_vars
    /\ [](Constructed =>
            \A e \in mood_dir.entries :
                e.jpgs > 0 => /\ Upper(e.name) \in DOMAIN moods
                              /\ \A d \in Payloads :
                                   Upper(Strip(d)) = Upper(e.name)
                                     => Upper(Strip(d)) \in DOMAIN moods)

\* C10 witness: a payload in lower case with surrounding whitespace was
\* enqueued as a key of the library and applied.
C10_Witness ==
    /\ Constructed
    /\ Alike # {}
    /\ <<" ","h","a","p","p","y","\n">> \in Payloads
    /\ pushed # <<>>
    /\ pushed[1] = HAPPY
    /\ last_command = HAPPY
    /\ popped = <<HAPPY>>
    /\ current_name = HAPPY

\* C11: once the player is constructed, whatever update(), play(),
\* add_to_queue() and the producer do, the displayed frame sequence is the
\* non-empty library entry of the displayed mood and the frame index lies in
\* 0 .. frame count - 1, so the frame lookup of update() is defined.
C11_IndexInRange ==
    Constructed
        => /\ current_name \in DOMAIN moods
           /\ current_frames = moods[current_name]
           /\ Len(current_frames) >= 1
           /\ index \in 0..(Len(current_frames) - 1)
           /\ (index + 1) \in DOMAIN current_frames
           /\ \A k \in DOMAIN moods : Len(moods[k]) >= 1

\* C11 witness: a mood other than the start mood is displayed at its last
\* frame.
C11_Witness ==
    /\ Constructed
    /\ current_name # default_mood
    /\ Len(current_frames) >= 2
    /\ index = Len(current_frames) - 1

\* The mood directory gives no mood: it is missing, or none of its
\* subdirectories holds a frame.
NoMoods == ~mood_dir.isdir \/ \A e \in mood_dir.entries : e.jpgs = 0

\* C12: when the directory gives no mood, construction fails and the render
\* loop is never entered: no update() runs, nothing is popped, no frame is
\* there to present, and the failure is final.
C12_NoMoodsIsFatal ==
    /\ NoMoods => /\ pc \in {"start", "failed"}
                  /\ advances = 0
                  /\ popped = <<>>
                  /\ current_frames = <<>>
                  /\ current_name = <<>>
                  /\ pc = "start" => ENABLED Construct
    /\ pc = "failed" => /\ NoMoods
                        /\ ~ENABLED Update
                        /\ ~ENABLED GetNowait
                        /\ ~ENABLED Construct
                        /\ \A m \in PlayArgs : ~ENABLED Play(m)

\* C12 witness: construction failed on a directory whose only subdirectory
\* holds no frame, with commands already queued.
C12_Witness ==
    /\ pc = "failed"
    /\ mood_dir.isdir
    /\ mood_dir.entries # {}
    /\ q_mood # <<>>

\* The keys the directory gives, and the smallest of them.
DirKeys == {Upper(e.name) : e \in {x \in mood_dir.entries : x.jpgs > 0}}
SmallestKey == CHOOSE k \in DirKeys : \A o \in DirKeys : ~StrLess(o, k)

\* The start mood C13 states.
StartMood ==
    IF arg_default_mood \in DirKeys THEN arg_default_mood ELSE SmallestKey

\* C13: with a library that is not empty, construction succeeds into the
\* state (start mood, index 0), the start mood being the configured default
\* when it is a key and the smallest key otherwise; default_mood records it.
C13_StartMood ==
    /\ [][(pc = "start" /\ pc' # "start" /\ ~NoMoods)
            => (/\ pc' = "idle"
                /\ DOMAIN moods' = DirKeys
                /\ current_name' = StartMood
                /\ current_mood' = StartMood
                /\ default_mood' = StartMood
                /\ current_frames' = moods'[StartMood]
                /\ index' = 0
                /\ last_change' = now)]_vars
    /\ []((pc = "start" /\ ~NoMoods) => ENABLED Construct)
    /\ [](Constructed => (~NoMoods /\ default_mood = StartMood))

\* C13 witness: the configured default is no key and the player started on
\* the smallest key.
C13_Witness ==
    /\ Constructed
    /\ arg_default_mood \notin DOMAIN moods
    /\ Cardinality(DOMAIN moods) >= 2
    /\ default_mood = HAPPY
    /\ current_name = default_mood
    /\ advances = 0

\* No entry of the queue names a mood of the library.
NothingValidQueued ==
    \A i \in 1..Len(q_mood) : Strip(q_mood[i]) \notin DOMAIN moods

\* A step of update(): it advances the frame, enters or leaves the queue
\* check, or pops.
UpdateStep ==
    Constructed /\ (advances' # advances \/ pc' # pc \/ Popping)

\* C14: there is no fallback to the default mood: a step of update() taken
\* while the queue is empty or holds only unknown identifiers leaves the
\* displayed mood alone, whatever the current and the default mood are, and
\* an advance moves on cyclically in the current sequence.
C14_NoFallback ==
    [][(UpdateStep /\ NothingValidQueued)
        => (/\ UNCHANGED <<current_name, current_frames, current_mood>>
            /\ advances' # advances
                 => index' = (index + 1) % Len(current_frames)
            /\ (pc = "check" /\ q_mood = <<>>)
                 => (pc' = "idle" /\ UNCHANGED anim))]_vars

\* C14 witness: a mood other than the default was displayed, its cycle ended
\* with nothing in the queue, and it is still displayed.
C14_Witness ==
    /\ pc = "idle"
    /\ current_name # default_mood
    /\ current_mood = current_name
    /\ q_mood = <<>>
    /\ Len(popped) = 1
    /\ wrap
    /\ index = 0
    /\ advances >= Len(moods[default_mood]) + Len(current_frames)

\* C15: a step of the subscriber callback changes nothing but the queue and
\* its own last command: the animation state and the library are untouched,
\* and between two steps of update() the frame to display stays the same.
C15_OnlyIdentifiersCross ==
    /\ [][\A d \in Payloads :
            Callback(d)
                => /\ UNCHANGED <<anim, moods, default_mood, pc, config, now,
                                  popped, advances, wrap>>
                   /\ Constructed => render_target' = render_target]_vars
    /\ [][(Constructed /\ ~UpdateStep)
            => (UNCHANGED <<anim, moods>> /\ render_target' = render_target)]_vars

\* C15 witness: in the middle of a cycle, the callback has queued a mood
\* other than the displayed one.
C15_Witness ==
    /\ pc = "idle"
    /\ index > 0
    /\ q_mood # <<>>
    /\ Head(q_mood) \in DOMAIN moods
    /\ Head(q_mood) # current_name
    /\ last_command = Head(q_mood)
    /\ popped = <<>>

\* The subscriber callback puts an item on the queue in this step.
Pushing == Len(q_mood') > Len(q_mood)

\* C16 as stated: every queue check that update() starts comes to an end,
\* whatever the subscriber thread does meanwhile.
C16_AlwaysCompletes == (pc = "check") ~> (pc = "idle")

\* C16, amended: get_nowait never waits, so the loop can always take its next
\* step; a step ends the loop exactly when it finds the queue empty or
\* dequeues a library key; and the check comes to an end whenever the
\* subscriber stops pushing from some point on.
C16_NeverWaits ==
    /\ [](pc = "check" => ENABLED GetNowait)
    /\ [][pc = "check" /\ pc' = "idle"
            => (q_mood = <<>> \/ is_valid(Strip(Head(q_mood))))]_vars
    /\ [][(GetNowait /\ (q_mood = <<>> \/ is_valid(Strip(Head(q_mood)))))
            => pc' = "idle"]_vars
    /\ (<>[][~Pushing]_vars) => ((pc = "check") ~> (pc = "idle"))

\* C16 witness: the queue check found the queue empty after it had thrown
\* away an unknown identifier, and returned.
C16_Witness ==
    /\ pc = "idle"
    /\ wrap
    /\ index = 0
    /\ q_mood = <<>>
    /\ popped # <<>>
    /\ Strip(popped[Len(popped)]) \notin DOMAIN moods

\* C17: a queue check that dequeues a library key X applies it exactly when
\* X is not the mood on display (current_name, which play() sets too): the
\* display is X at index 0 afterwards, and is left alone if it was X already.
C17_AppliesIfNotDisplayed ==
    [][(pc = "check" /\ Popping /\ is_valid(Strip(Head(q_mood))))
        => LET X == Strip(Head(q_mood)) IN
           /\ current_name' = X
           /\ current_frames' = moods[X]
           /\ X # current_name => (index' = 0 /\ last_change' = now)
           /\ X = current_name
                => UNCHANGED <<current_name, current_frames, index,
                               last_change>>]_vars

\* The time elapsed since the last advance has reached the frame delay.
Elapsed == now - last_change >= frame_delay_ms

\* What a call of update() that is not due leaves alone.
NotAdvanced ==
    UNCHANGED <<index, last_change, current_mood, current_name,
                current_frames, q_mood>>

\* C18 as stated: a call of update() changes the frame index if and only if
\* the frame delay has elapsed; then the index is (index + 1) modulo the
\* frame count and the timestamp is the current time; otherwise index,
\* timestamp, mood and queue are unchanged.
C18_IndexChangesIffElapsed ==
    [][Update
        => /\ index' # index <=> Elapsed
           /\ Elapsed => /\ index' = (index + 1) % Len(current_frames)
                         /\ last_change' = now
           /\ ~Elapsed => NotAdvanced]_vars

\* C18, amended: a call of update() takes the advance step if and only if
\* the frame delay has elapsed; the step sets the index to (index + 1) modulo
\* the frame count, one step however much time elapsed, which changes the
\* index exactly when the sequence has more than one frame, and it sets the
\* timestamp to the current time; otherwise index, timestamp, mood and queue
\* are unchanged.
C18_AdvanceIffElapsed ==
    [][Update
        => /\ advances' # advances <=> Elapsed
           /\ Elapsed => /\ index' = (index + 1) % Len(current_frames)
                         /\ last_change' = now
                         /\ advances' = advances + 1
                         /\ index' # index <=> Len(current_frames) > 1
           /\ ~Elapsed => NotAdvanced]_vars

\* C18 witness: the first advance came two frame delays or more after the
\* start, and moved the index on by one.
C18_Witness ==
    /\ pc = "idle"
    /\ advances = 1
    /\ index = 1
    /\ last_change = now
    /\ now >= 2 * frame_delay_ms
    /\ popped = <<>>

\* The positions of the library keys among the identifiers pushed.
ValidPushes == {i \in 1..Len(pushed) : Strip(pushed[i]) \in DOMAIN moods}

\* The last library key pushed, or the start mood if none was.
LastValidPushed ==
    IF ValidPushes = {}
    THEN default_mood
    ELSE Strip(pushed[CHOOSE i \in ValidPushes : \A j \in ValidPushes : j <= i])

\* Everything pushed was popped and the last library key pushed is on display.
Converged ==
    /\ pc = "idle"
    /\ q_mood = <<>>
    /\ popped = pushed
    /\ current_name = LastValidPushed
    /\ current_mood = LastValidPushed
    /\ current_frames = moods[LastValidPushed]

\* C19: with a render loop that keeps calling update() while the clock runs,
\* and a subscriber that stops pushing, every request pushed is popped in the
\* end, and from some point on the mood on display is the last library key
\* that was pushed, or the start mood if there was none.
C19_Converges ==
    /\ <>[](pc = "failed" \/ (Constructed /\ q_mood = <<>> /\ popped = pushed
                              /\ current_name = LastValidPushed))
    /\ (Constructed /\ q_mood # <<>>) ~> (q_mood = <<>>)
    /\ []<>(pc = "failed" \/ Converged)

\* C19 witness: three requests were pushed, the last of them unknown, all
\* were popped, and the last library key among them is on display.
C19_Witness ==
    /\ Converged
    /\ Len(pushed) = MaxPush
    /\ ValidPushes # {}
    /\ MaxPush \notin ValidPushes
    /\ current_name # default_mood

\* C20: the callback drops a non-empty command only if its normalized
\* identifier is the one pushed last: in every state, a command that
\* normalizes to a non-empty identifier other than the last one pushed, the
\* first one after startup included, is put on the queue when it is received.
C20_DropsOnlyRepeats ==
    \A d \in Payloads :
        LET cmd == Upper(Strip(d)) IN
        (/\ pc # "failed"
         /\ Len(pushed) < MaxPush
         /\ cmd # <<>>
         /\ (pushed = <<>> \/ pushed[Len(pushed)] # cmd))
            => ENABLED (/\ Callback(d)
                        /\ pushed' = Append(pushed, cmd)
                        /\ q_mood' = Append(q_mood, cmd))

====
